---- MODULE Spec2Model ----
(***************************************************************************)
(* Model of xarm.Controller (src/Python/xarm/controller.py): the frame     *)
(* send/receive paths over the serial and the HID transport, the servo     *)
(* operations built on them, discovery and the battery retry loop.         *)
(*                                                                         *)
(* Python values are modelled by tagged records: t is the Python type      *)
(* ("int", "float", "none", "str", "servo", "list", "pair"), and a float   *)
(* angle is held in tenths of a degree (1251 stands for 125.1).            *)
(***************************************************************************)
EXTENDS Integers, Sequences, FiniteSets, TLC

\* ------------------------------------------------------------------------
\* Program constants (class attributes and literals of controller.py)
\* ------------------------------------------------------------------------
SIGNATURE == 85
CMD_SERVO_MOVE == 3
CMD_GET_BATTERY_VOLTAGE == 15
CMD_SERVO_STOP == 20
CMD_GET_SERVO_POSITION == 21
CMD_SERVO_ID_WRITE == 27
\* len(data) + 2 in the length byte, and the 4-byte header read
LengthOverhead == 2
HeaderSize == 4
\* self._device.read(64, 50): one HID report of at most 64 bytes
ReportSize == 64
\* listServos(self, maximum_servo_id=6)
DefaultMaxServoId == 6
\* while tries < 5
MaxTries == 5
\* position limits and the angle limits, the latter in tenths of a degree
PositionMax == 1000
AngleLimit10 == 1250
\* setPosition(..., duration=1000, ...)
DefaultDuration == 1000

Commands == {CMD_SERVO_MOVE, CMD_GET_BATTERY_VOLTAGE, CMD_SERVO_STOP,
             CMD_GET_SERVO_POSITION, CMD_SERVO_ID_WRITE}

\* ------------------------------------------------------------------------
\* Bounds of the model
\* ------------------------------------------------------------------------
\* at most this many servos are physically attached
MaxAttached == 2
\* a call that reads is started with at most this many unread bytes pending
MaxRx == 0
\* longest payload taken through the frame codec
MaxPayloadLen == 250

\* ------------------------------------------------------------------------
\* Sequence helpers (Python slicing never fails on a short sequence)
\* ------------------------------------------------------------------------
Min(a, b) == IF a < b THEN a ELSE b

Take(s, n) == SubSeq(s, 1, Min(n, Len(s)))

Drop(s, n) == SubSeq(s, Min(n, Len(s)) + 1, Len(s))

RECURSIVE Flatten(_)
Flatten(q) == IF q = <<>> THEN <<>> ELSE Head(q) \o Flatten(Tail(q))

\* the element of a one-element set; Only({F(x) : x \in {v}}) is F applied to
\* the value of v, computed once before F uses it (a local variable of the code)
Only(S) == CHOOSE y \in S : TRUE

Lo(n) == n % 256

\* the high byte without the 0xff00 mask
Hi_unmasked(n) == n \div 256

Hi(n) == (n \div 256) % 256

IsByte(n) == n >= 0 /\ n <= 255

\* ------------------------------------------------------------------------
\* Frame send path: Controller._send
\* ------------------------------------------------------------------------
\* the frame header [SIGNATURE, SIGNATURE, len(data) + 2, cmd]
Header(cmd, data) == <<SIGNATURE, SIGNATURE, Len(data) + LengthOverhead, cmd>>

\* the bytes handed to the device by one _send: serial writes the header and
\* then the data, HID writes one report that starts with a 0 report id
SendBytes(serial, cmd, data) ==
    IF serial THEN Header(cmd, data) \o data
    ELSE <<0>> \o Header(cmd, data) \o data

\* the frame carried by the bytes of one _send
FrameOf(serial, bytes) == IF serial THEN bytes ELSE Tail(bytes)

\* trace events of one call: a _send with the bytes written, a _recv with its result
WriteEv(serial, cmd, data) ==
    [ev |-> "write", cmd |-> cmd, bytes |-> SendBytes(serial, cmd, data), res |-> "sent"]

ReadEv(cmd, r) == [ev |-> "read", cmd |-> cmd, bytes |-> r.data, res |-> r.kind]

\* ------------------------------------------------------------------------
\* Frame receive path: Controller._recv
\* The transport input is a queue of chunks: on HID each chunk is a report and
\* one read takes the oldest report; on serial the chunks form one byte stream.
\* ------------------------------------------------------------------------
\* the header test without the echoed command
HeaderMatches_anycmd(h, cmd) == h[1] = SIGNATURE /\ h[2] = SIGNATURE

\* the header test of both branches: both signature bytes and the echoed command
HeaderMatches(h, cmd) == h[1] = SIGNATURE /\ h[2] = SIGNATURE /\ h[4] = cmd

\* length = data[2]: the number of bytes taken after the header, by
\* read(length) on serial and by the slice [4:4 + length] on HID
BodyLength(h) == h[3]

Left(x) == IF x = <<>> THEN <<>> ELSE <<x>>

\* the serial branch on the header h = read(4) and the bytes `rest` behind it:
\* data[0], data[1], data[3] are indexed in this order, with `and` short-circuit
SerialParse(cmd, h, rest) ==
    IF Len(h) = 0
      THEN [kind |-> "IndexError", data |-> <<>>, rest |-> <<>>]
    ELSE IF h[1] # SIGNATURE
      THEN [kind |-> "none", data |-> <<>>, rest |-> Left(rest)]
    ELSE IF Len(h) < 2
      THEN [kind |-> "IndexError", data |-> <<>>, rest |-> <<>>]
    ELSE IF h[2] # SIGNATURE
      THEN [kind |-> "none", data |-> <<>>, rest |-> Left(rest)]
    ELSE IF Len(h) < HeaderSize
      THEN [kind |-> "IndexError", data |-> <<>>, rest |-> <<>>]
    ELSE IF HeaderMatches(h, cmd)
      THEN [kind |-> "data", data |-> Take(rest, BodyLength(h)),
            rest |-> Left(Drop(rest, BodyLength(h)))]
    ELSE [kind |-> "none", data |-> <<>>, rest |-> Left(rest)]

SerialStream(cmd, s) == SerialParse(cmd, Take(s, HeaderSize), Drop(s, HeaderSize))

RecvSerial(cmd, q) == Only({SerialStream(cmd, s) : s \in {Flatten(q)}})

\* the HID branch on the report returned by read(64, 50)
HidParse(cmd, report, rest) ==
    IF Len(report) < HeaderSize
      THEN [kind |-> "none", data |-> <<>>, rest |-> rest]
    ELSE IF HeaderMatches(report, cmd)
      THEN [kind |-> "data",
            data |-> Take(Drop(report, HeaderSize), BodyLength(report)),
            rest |-> rest]
    ELSE [kind |-> "none", data |-> <<>>, rest |-> rest]

RecvHid(cmd, q) ==
    IF q = <<>> THEN HidParse(cmd, <<>>, <<>>)
    ELSE HidParse(cmd, Take(Head(q), ReportSize), Tail(q))

Recv(serial, cmd, q) == IF serial THEN RecvSerial(cmd, q) ELSE RecvHid(cmd, q)

\* ------------------------------------------------------------------------
\* The device behind the transport (serial.Serial / hid.device): what arrives
\* in answer to one request.  `now` arrives before the read of the request
\* returns, `late` only after that read timed out.
\* ------------------------------------------------------------------------
\* position the servo with this id reports
PosOf(id) == 256 + 10 * id

\* millivolt readings the controller board may report
Millivolts == {0, 7400}

RECURSIVE Triples(_)
Triples(ids) ==
    IF ids = <<>> THEN <<>>
    ELSE <<Head(ids), Lo(PosOf(Head(ids))), Hi(PosOf(Head(ids)))>> \o Triples(Tail(ids))

Reverse(s) == [i \in 1..Len(s) |-> s[Len(s) + 1 - i]]

Frame(cmd, payload) == Header(cmd, payload) \o payload

Pad(bytes) == bytes \o [i \in 1..(ReportSize - Len(bytes)) |-> 0]

Nothing == [now |-> <<>>, late |-> <<>>]

\* how a frame reaches the host under each behaviour of the device
Deliver(serial, frame, kind) ==
    CASE kind = "ok"       -> [now |-> <<frame>>, late |-> <<>>]
      [] kind = "okpad"    -> [now |-> <<IF serial THEN frame ELSE Pad(frame)>>, late |-> <<>>]
      [] kind = "late"     -> [now |-> <<>>, late |-> <<frame>>]
      [] kind = "badsig"   -> [now |-> <<[frame EXCEPT ![2] = 0]>>, late |-> <<>>]
      [] kind = "wrongcmd" -> [now |-> <<[frame EXCEPT ![4] = CMD_SERVO_MOVE]>>, late |-> <<>>]
      [] kind = "short"    -> [now |-> <<Take(frame, HeaderSize + 1)>>, late |-> <<>>]
      [] kind = "hdr"      -> [now |-> <<Take(frame, 2)>>, late |-> <<>>]
      [] OTHER             -> Nothing

\* the reply payload to a GetPosition request for ids
PositionPayload(ids, kind) ==
    CASE kind = "swapped"   -> <<Len(ids)>> \o Triples(Reverse(ids))
      [] kind = "fewer"     -> <<Len(ids) - 1>> \o Triples(Take(ids, Len(ids) - 1))
      [] kind = "overcount" -> <<Len(ids) + 1>> \o Triples(ids)
      [] OTHER              -> <<Len(ids)>> \o Triples(ids)

ListKinds == {"swapped", "fewer", "overcount"}

\* the answer to a GetPosition request: only when every requested servo is attached
PositionAnswer(serial, ids, att, kind) ==
    IF ids = <<>> \/ \E i \in 1..Len(ids) : ids[i] \notin att THEN Nothing
    ELSE Deliver(serial, Frame(CMD_GET_SERVO_POSITION, PositionPayload(ids, kind)),
                 IF kind \in ListKinds THEN "ok" ELSE kind)

\* the answer to a GetBatteryVoltage request
BatteryAnswer(serial, mv, kind) ==
    IF kind = "empty"
      THEN Deliver(serial, Frame(CMD_GET_BATTERY_VOLTAGE, <<>>), "ok")
      ELSE Deliver(serial, Frame(CMD_GET_BATTERY_VOLTAGE, <<Lo(mv), Hi(mv)>>), kind)

\* the input queue kept by the transport: serial keeps one byte stream
Normal(serial, q) == IF serial THEN Left(Flatten(q)) ELSE q

\* one _recv of the host against the device's answer: the result of the read
\* and the input queue left behind
Received(serial, r, late) ==
    [kind |-> r.kind, data |-> r.data, rx |-> Normal(serial, r.rest \o late)]

Arrived(serial, cmd, q, late) ==
    Only({Received(serial, r, late) : r \in {Recv(serial, cmd, q)}})

Exchange(serial, cmd, rx, ans) ==
    Only({Arrived(serial, cmd, q, ans.late) : q \in {Normal(serial, rx \o ans.now)}})

\* ------------------------------------------------------------------------
\* Python values handed to the operations
\* ------------------------------------------------------------------------
NoneV == [t |-> "none", v |-> 0]
IntV(n) == [t |-> "int", v |-> n]
FloatV(x10) == [t |-> "float", v |-> x10]
StrV == [t |-> "str", v |-> 0]

\* a `servos` argument: a is the id (int, Servo.servo_id), b the position of a
\* Servo, items the elements of a list
Arg(t, a, b, items) == [t |-> t, a |-> a, b |-> b, items |-> items]
IdArg(n) == Arg("int", n, 0, <<>>)
ServoArg(id, pos) == Arg("servo", id, pos, <<>>)
ListArg(items) == Arg("list", 0, 0, items)
NoArg == Arg("none", 0, 0, <<>>)
StrArg == Arg("str", 0, 0, <<>>)

\* a list element: a Servo (a = servo_id, b = position), a pair (a = pair[0] of
\* type at, b = pair[1] of type bt), a bare int (a), or a 3-tuple
Elem(t, at, a, bt, b) == [t |-> t, at |-> at, a |-> a, bt |-> bt, b |-> b]
ServoEl(id, pos) == Elem("servo", "int", id, "int", pos)
PairEl(id, bt, b) == Elem("pair", "int", id, bt, b)
IntEl(n) == Elem("int", "int", n, "none", 0)
TripleEl == Elem("triple", "int", 1, "int", 0)

\* the result of one call: the error raised ("none" when it returned), the
\* value returned, the _send/_recv events, the transport input left behind,
\* the Servo objects of a list argument, and the cached id list
Result(err, ret, trace, rx, objs, cache) ==
    [err |-> err, ret |-> ret, trace |-> trace, rx |-> rx, objs |-> objs, cache |-> cache]

\* ------------------------------------------------------------------------
\* Util (angle conversion), an external collaborator
\* ------------------------------------------------------------------------
AngleToPosition(x10) == ((x10 + AngleLimit10) * 4) \div 10

PositionToAngle(p) == (p * 10) \div 4 - AngleLimit10

\* ------------------------------------------------------------------------
\* Controller.getPosition
\* ------------------------------------------------------------------------
AllServos(items) == \A i \in 1..Len(items) : items[i].t = "servo"

\* the ids the request names, in request order
RequestIds(arg) ==
    IF arg.t = "list" THEN [i \in 1..Len(arg.items) |-> arg.items[i].a] ELSE <<arg.a>>

GetPositionArgOk(arg) ==
    \/ arg.t = "int"
    \/ arg.t = "servo"
    \/ arg.t = "list" /\ AllServos(arg.items)

\* position of reply entry i (0-based): data[i*3+3] * 256 + data[i*3+2]
ReplyPosition(data, i) == data[i * 3 + 4] * 256 + data[i * 3 + 3]

\* for i in range(data[0]): servos[i].position = ...; stops at the first
\* IndexError with the assignments made so far kept
RECURSIVE UpdatePositions(_, _, _)
UpdatePositions(objs, data, i) ==
    IF i >= data[1] THEN [err |-> "none", objs |-> objs]
    ELSE IF Len(data) < i * 3 + 4 \/ i >= Len(objs)
      THEN [err |-> "IndexError", objs |-> objs]
    ELSE UpdatePositions([objs EXCEPT ![i + 1].b = ReplyPosition(data, i)], data, i + 1)

\* what getPosition makes of the result r of _recv; tr are its two events
PositionReply(arg, degrees, cache, r, tr) ==
    IF r.kind = "IndexError"
      THEN Result("IndexError", NoneV, tr, r.rx, arg.items, cache)
    ELSE IF r.kind = "none"
      THEN Result("RecvError", NoneV, tr, r.rx, arg.items, cache)
    ELSE IF arg.t = "list"
      THEN IF r.data = <<>>
             THEN Result("IndexError", NoneV, tr, r.rx, arg.items, cache)
             ELSE Result(UpdatePositions(arg.items, r.data, 0).err, NoneV, tr, r.rx,
                         UpdatePositions(arg.items, r.data, 0).objs, cache)
    ELSE IF Len(r.data) < 4
      THEN Result("IndexError", NoneV, tr, r.rx, arg.items, cache)
    ELSE Result("none",
                IF degrees THEN FloatV(PositionToAngle(ReplyPosition(r.data, 0)))
                           ELSE IntV(ReplyPosition(r.data, 0)),
                tr, r.rx, arg.items, cache)

PositionRound(serial, arg, degrees, cache, data, r) ==
    PositionReply(arg, degrees, cache, r,
                  <<WriteEv(serial, CMD_GET_SERVO_POSITION, data),
                    ReadEv(CMD_GET_SERVO_POSITION, r)>>)

PositionRequest(serial, rx, cache, arg, degrees, att, kind, ids) ==
    IF \E i \in 1..Len(ids) : ~IsByte(ids[i])
      THEN Result("ByteRange", NoneV, <<>>, rx, arg.items, cache)
    ELSE Only({PositionRound(serial, arg, degrees, cache, <<Len(ids)>> \o ids, r) :
                 r \in {Exchange(serial, CMD_GET_SERVO_POSITION, rx,
                                 PositionAnswer(serial, ids, att, kind))}})

GetPositionOp(serial, rx, cache, arg, degrees, att, kind) ==
    IF ~GetPositionArgOk(arg)
      THEN Result("BadSpec", NoneV, <<>>, rx, arg.items, cache)
    ELSE PositionRequest(serial, rx, cache, arg, degrees, att, kind, RequestIds(arg))

\* ------------------------------------------------------------------------
\* Controller.listServos
\* ------------------------------------------------------------------------
\* a probe that raised is passed over: only when getPosition(i) returned is i appended
Found_always(cache, i, g) == Append(cache, i)

\* the append left out
Found_never(cache, i, g) == cache

\* try: self.getPosition(i); self.servos.append(i)  except: pass
Found(cache, i, g) == IF g.err = "none" THEN Append(cache, i) ELSE cache

\* the state of the loop after the probe of id i with outcome g
Probed(acc, i, g) ==
    [cache |-> Found(acc.cache, i, g), trace |-> acc.trace \o g.trace, rx |-> g.rx]

\* for i in range(1, maximum_servo_id + 1)
RECURSIVE Probe(_, _, _, _, _, _)
Probe(serial, i, max, att, kind, acc) ==
    IF i > max THEN acc
    ELSE Only({Probe(serial, i + 1, max, att, kind, a) :
                 a \in {Probed(acc, i,
                               GetPositionOp(serial, acc.rx, acc.cache, IdArg(i),
                                             FALSE, att, kind))}})

\* return self.servos
Listed(p) == Result("none", [t |-> "list", v |-> Len(p.cache)], p.trace, p.rx, <<>>, p.cache)

ListServosOp(serial, rx, max, att, kind) ==
    Only({Listed(p) :
            p \in {Probe(serial, 1, max, att, kind,
                         [cache |-> <<>>, trace |-> <<>>, rx |-> rx])}})

\* ------------------------------------------------------------------------
\* Controller.writeServoId
\* ------------------------------------------------------------------------
\* if len(self.servos) == 0
NoServos(cache) == Len(cache) = 0

\* the guard with its threshold off by one
AmbiguousTarget_lax(cache, overwrite) == Len(cache) > 2 /\ ~overwrite

\* if len(self.servos) > 1 and not overwrite_all_servo_ids
AmbiguousTarget(cache, overwrite) == Len(cache) > 1 /\ ~overwrite

\* if new_servo_id == 0
ZeroId(new_id) == new_id = 0

\* the checks and the send that follow the optional discovery ls
WriteIdChecks(serial, ls, new_id, overwrite) ==
    IF NoServos(ls.cache)
      THEN Result("NoServos", NoneV, ls.trace, ls.rx, <<>>, ls.cache)
    ELSE IF AmbiguousTarget(ls.cache, overwrite)
      THEN Result("AmbiguousTarget", NoneV, ls.trace, ls.rx, <<>>, ls.cache)
    ELSE IF ZeroId(new_id)
      THEN Result("ZeroId", NoneV, ls.trace, ls.rx, <<>>, ls.cache)
    ELSE IF ~IsByte(new_id)
      THEN Result("ByteRange", NoneV, ls.trace, ls.rx, <<>>, ls.cache)
    ELSE Result("none", NoneV,
                Append(ls.trace, WriteEv(serial, CMD_SERVO_ID_WRITE, <<new_id>>)),
                ls.rx, <<>>, ls.cache)

WriteServoIdOp(serial, rx, cache, new_id, overwrite, att, kind) ==
    Only({WriteIdChecks(serial, ls, new_id, overwrite) :
            ls \in {IF overwrite THEN Result("none", NoneV, <<>>, rx, <<>>, cache)
                    ELSE ListServosOp(serial, rx, DefaultMaxServoId, att, kind)}})

\* ------------------------------------------------------------------------
\* Controller.setPosition
\* ------------------------------------------------------------------------
\* the upper limit taken as exclusive
PositionOutOfRange_open(p) == p < 0 \/ p >= PositionMax

\* if position < 0 or position > 1000
PositionOutOfRange(p) == p < 0 \/ p > PositionMax

\* if position < -125.0 or position > 125.0
AngleOutOfRange(x10) == x10 < -AngleLimit10 \/ x10 > AngleLimit10

\* [id, position & 0xff, (position & 0xff00) >> 8]
Entry(id, p) == <<id, Lo(p), Hi(p)>>

\* the loop over a list argument: acc holds the data built so far, the local
\* variable `position` (the parameter until an element assigns it) and the error
RECURSIVE MoveEntries(_, _, _)
MoveEntries(items, i, acc) ==
    IF i > Len(items) \/ acc.err # "none" THEN acc
    ELSE
      LET e == items[i]
          Fail(x) == [acc EXCEPT !.err = x]
          Put(id, pos) ==
              IF pos.t # "int" THEN Fail("TypeError")
              ELSE IF ~IsByte(id) THEN Fail("ByteRange")
              ELSE [acc EXCEPT !.data = acc.data \o Entry(id, pos.v), !.position = pos]
      IN  MoveEntries(items, i + 1,
            IF e.t = "servo" THEN
              IF ~IsByte(e.a) THEN Fail("ByteRange")
              ELSE [acc EXCEPT !.data = acc.data \o Entry(e.a, e.b)]
            ELSE IF e.t = "int" THEN Fail("TypeError")
            ELSE IF e.t = "pair" /\ e.at = "int" THEN
              IF e.bt = "int" THEN
                IF PositionOutOfRange(e.b) THEN Fail("PositionRange")
                ELSE Put(e.a, IntV(e.b))
              ELSE IF e.bt = "float" THEN
                IF AngleOutOfRange(e.b) THEN Fail("AngleRange")
                ELSE Put(e.a, IntV(AngleToPosition(e.b)))
              ELSE Put(e.a, acc.position)
            ELSE Fail("BadSpec"))

\* the list built so far is sent although an element was rejected
MoveListResult_partial(serial, rx, cache, arg, m) ==
    Result(m.err, NoneV, <<WriteEv(serial, CMD_SERVO_MOVE, m.data)>>, rx, arg.items, cache)

\* the raise inside the loop leaves setPosition before self._send is reached
MoveListResult(serial, rx, cache, arg, m) ==
    IF m.err # "none" THEN Result(m.err, NoneV, <<>>, rx, arg.items, cache)
    ELSE Result("none", NoneV, <<WriteEv(serial, CMD_SERVO_MOVE, m.data)>>,
                rx, arg.items, cache)

SetPositionOp(serial, rx, cache, arg, position, duration) ==
    LET head == <<1, Lo(duration), Hi(duration)>>
        Raise(x) == Result(x, NoneV, <<>>, rx, arg.items, cache)
        Sent(data) == Result("none", NoneV, <<WriteEv(serial, CMD_SERVO_MOVE, data)>>,
                             rx, arg.items, cache)
    IN  IF arg.t \in {"int", "float"} THEN
          IF position.t = "none" THEN Raise("PositionMissing")
          ELSE IF position.t = "int" /\ PositionOutOfRange(position.v)
            THEN Raise("PositionRange")
          ELSE IF position.t = "float" /\ AngleOutOfRange(position.v)
            THEN Raise("AngleRange")
          ELSE IF position.t = "str" \/ arg.t = "float" THEN Raise("TypeError")
          ELSE IF ~IsByte(arg.a) THEN Raise("ByteRange")
          ELSE Sent(head \o Entry(arg.a, IF position.t = "float"
                                           THEN AngleToPosition(position.v)
                                           ELSE position.v))
        ELSE IF arg.t = "servo" THEN
          IF ~IsByte(arg.a) THEN Raise("ByteRange")
          ELSE Sent(head \o Entry(arg.a, arg.b))
        ELSE IF arg.t = "list" THEN
          Only({MoveListResult(serial, rx, cache, arg, m) :
                  m \in {MoveEntries(arg.items, 1,
                                     [data |-> [head EXCEPT ![1] = Len(arg.items)],
                                      position |-> position, err |-> "none"])}})
        ELSE Raise("BadSpec")

\* ------------------------------------------------------------------------
\* Controller.servoOff
\* ------------------------------------------------------------------------
\* the ids appended for a list: ints and Servo objects, anything else is skipped
RECURSIVE StopIds(_)
StopIds(items) ==
    IF items = <<>> THEN <<>>
    ELSE (IF Head(items).t \in {"int", "servo"} THEN <<Head(items).a>> ELSE <<>>)
         \o StopIds(Tail(items))

\* servos is None: data = [6, 1,2,3,4,5,6]
AllStop == <<6, 1, 2, 3, 4, 5, 6>>

ServoOffOp(serial, rx, cache, arg) ==
    LET Raise(x) == Result(x, NoneV, <<>>, rx, arg.items, cache)
        Sent(data) ==
            IF \E i \in 1..Len(data) : ~IsByte(data[i]) THEN Raise("ByteRange")
            ELSE Result("none", NoneV, <<WriteEv(serial, CMD_SERVO_STOP, data)>>,
                        rx, arg.items, cache)
    IN  IF arg.t \in {"int", "servo"} THEN Sent(<<1, arg.a>>)
        ELSE IF arg.t = "list" THEN Sent(<<Len(arg.items)>> \o StopIds(arg.items))
        ELSE IF arg.t = "none" THEN Sent(AllStop)
        ELSE Raise("BadSpec")

\* ------------------------------------------------------------------------
\* Controller.getBatteryVoltage
\* ------------------------------------------------------------------------
\* the loop bound off by one
MayTry_more(tries) == tries <= MaxTries

\* while tries < 5
MayTry(tries) == tries < MaxTries

\* if not data: the reply is None or empty
NoData(r) == r.kind = "none" \/ r.data = <<>>

\* how the device treats the k-th request of a call whose first `fails`
\* requests it fails in the way `kind`
KindAt(fails, kind, k) == IF k <= fails THEN kind ELSE "ok"

\* the events of the call after one more _send and its _recv r
Tried(serial, trace, r) ==
    trace \o <<WriteEv(serial, CMD_GET_BATTERY_VOLTAGE, <<>>),
               ReadEv(CMD_GET_BATTERY_VOLTAGE, r)>>

\* the value returned is held in millivolts: (data[1] * 256 + data[0]) / 1000.0
RECURSIVE BatteryLoop(_, _, _, _, _, _, _)
RECURSIVE BatteryStep(_, _, _, _, _, _, _, _)
BatteryStep(serial, cache, tries, fails, kind, mv, r, tr) ==
    IF r.kind = "IndexError" THEN Result("IndexError", NoneV, tr, r.rx, <<>>, cache)
    ELSE IF NoData(r)
      THEN BatteryLoop(serial, cache, tries + 1, fails, kind, mv, [trace |-> tr, rx |-> r.rx])
    ELSE IF Len(r.data) < 2 THEN Result("IndexError", NoneV, tr, r.rx, <<>>, cache)
    ELSE Result("none", FloatV(r.data[2] * 256 + r.data[1]), tr, r.rx, <<>>, cache)

BatteryAttempt(serial, cache, tries, fails, kind, mv, trace, r) ==
    BatteryStep(serial, cache, tries, fails, kind, mv, r, Tried(serial, trace, r))

BatteryLoop(serial, cache, tries, fails, kind, mv, acc) ==
    IF ~MayTry(tries) THEN Result("none", FloatV(0), acc.trace, acc.rx, <<>>, cache)
    ELSE Only({BatteryAttempt(serial, cache, tries, fails, kind, mv, acc.trace, r) :
                 r \in {Exchange(serial, CMD_GET_BATTERY_VOLTAGE, acc.rx,
                                 BatteryAnswer(serial, mv, KindAt(fails, kind, tries + 1)))}})

GetBatteryVoltageOp(serial, rx, cache, fails, kind, mv) ==
    BatteryLoop(serial, cache, 0, fails, kind, mv, [trace |-> <<>>, rx |-> rx])

\* ------------------------------------------------------------------------
\* The controller as a state machine: one action per public operation
\* ------------------------------------------------------------------------
VARIABLES
    is_serial,   \* self._is_serial, fixed at construction
    servos,      \* self.servos, the cached list of discovered ids
    attached,    \* ids of the servos physically attached to the device
    rxbuf,       \* unread input held by the transport
    call,        \* the last call and its arguments
    out,         \* the Result of the last call
    codec        \* a frame taken through the send path and the receive path

vars == <<is_serial, servos, attached, rxbuf, call, out, codec>>

ServoIds == 1..DefaultMaxServoId

\* how the device treats the requests of one call
ReplyKinds == {"ok", "okpad", "late", "badsig", "wrongcmd", "short", "hdr"}

Call(op, arg, position, duration, new_id, overwrite, max_id, degrees, kind, fails, mv) ==
    [op |-> op, arg |-> arg, position |-> position, duration |-> duration,
     new_id |-> new_id, overwrite |-> overwrite, max_id |-> max_id,
     degrees |-> degrees, kind |-> kind, fails |-> fails, mv |-> mv]

\* no call is in progress and the result of the last one has been taken
NoCall == Call("idle", NoArg, NoneV, 0, 0, FALSE, 0, FALSE, "ok", 0, 0)

NoResult == Result("none", NoneV, <<>>, <<>>, <<>>, <<>>)

Idle == call.op = "idle"

Codec(op, cmd, payload, raw, damage, res) ==
    [op |-> op, cmd |-> cmd, payload |-> payload, raw |-> raw, damage |-> damage, res |-> res]

NoRecv == [kind |-> "none", data |-> <<>>, rest |-> <<>>]

NoCodec == Codec("idle", 0, <<>>, <<>>, "none", NoRecv)

\* __init__: self.servos = [], nothing read or written yet
Init ==
    /\ is_serial \in BOOLEAN
    /\ servos = <<>>
    /\ attached \in {a \in SUBSET ServoIds : Cardinality(a) <= MaxAttached}
    /\ rxbuf = <<>>
    /\ call = NoCall
    /\ out = NoResult
    /\ codec = NoCodec

RxSize(q) == Len(Flatten(q))

\* the controller is single-threaded: a call starts when the previous one has
\* returned; calls that read are explored up to the bound on pending input
CanRead == Idle /\ RxSize(rxbuf) <= MaxRx

Finish(c, r) ==
    /\ call' = c
    /\ out' = r
    /\ servos' = r.cache
    /\ rxbuf' = r.rx
    /\ UNCHANGED <<is_serial, attached, codec>>

MoveInputs ==
    {<<IdArg(1), p, DefaultDuration>> :
        p \in {IntV(-1), IntV(0), IntV(PositionMax), IntV(PositionMax + 1),
               FloatV(AngleLimit10), FloatV(AngleLimit10 + 1), FloatV(-AngleLimit10 - 1),
               NoneV, StrV}}
    \cup {<<IdArg(2), IntV(500), d>> : d \in {0, 65535, 66536}}
    \cup {<<a, NoneV, DefaultDuration>> :
        a \in {IdArg(256), ServoArg(3, 500), ServoArg(3, 2000), NoArg, StrArg,
               ListArg(<<>>),
               ListArg(<<ServoEl(1, 100), PairEl(2, "int", 200)>>),
               ListArg(<<PairEl(1, "int", PositionMax + 1)>>),
               ListArg(<<PairEl(1, "float", 0)>>),
               ListArg(<<PairEl(1, "float", AngleLimit10 + 1)>>),
               ListArg(<<PairEl(1, "int", 300), PairEl(2, "str", 0)>>),
               ListArg(<<PairEl(2, "str", 0)>>),
               ListArg(<<ServoEl(1, 100), TripleEl>>),
               ListArg(<<IntEl(1)>>)}}
    \cup {<<ListArg(<<PairEl(2, "str", 0)>>), IntV(5000), DefaultDuration>>}

SetPosition ==
    /\ Idle
    /\ \E i \in MoveInputs :
        Finish(Call("setPosition", i[1], i[2], i[3], 0, FALSE, 0, FALSE, "ok", 0, 0),
               SetPositionOp(is_serial, rxbuf, servos, i[1], i[2], i[3]))

QueryInputs ==
    {<<IdArg(n), FALSE, k>> : n \in {1, 3}, k \in ReplyKinds}
    \cup {<<ListArg(<<ServoEl(1, 0), ServoEl(2, 0)>>), FALSE, k>> :
            k \in {"ok", "late", "short"} \cup ListKinds}
    \cup {<<IdArg(1), TRUE, "ok">>, <<ServoArg(2, 0), FALSE, "ok">>,
          <<IdArg(256), FALSE, "ok">>, <<NoArg, FALSE, "ok">>,
          <<ListArg(<<ServoEl(1, 0), IntEl(2)>>), FALSE, "ok">>}

GetPosition ==
    /\ CanRead
    /\ \E i \in QueryInputs :
        Finish(Call("getPosition", i[1], NoneV, 0, 0, FALSE, 0, i[2], i[3], 0, 0),
               GetPositionOp(is_serial, rxbuf, servos, i[1], i[2], attached, i[3]))

StopInputs ==
    {NoArg, IdArg(1), IdArg(256), ServoArg(2, 0), StrArg,
     ListArg(<<IntEl(1), ServoEl(2, 0)>>), ListArg(<<IntEl(1), TripleEl>>)}

ServoOff ==
    /\ Idle
    /\ \E a \in StopInputs :
        Finish(Call("servoOff", a, NoneV, 0, 0, FALSE, 0, FALSE, "ok", 0, 0),
               ServoOffOp(is_serial, rxbuf, servos, a))

ListServos ==
    /\ CanRead
    /\ \E m \in {2, DefaultMaxServoId}, k \in ReplyKinds :
        Finish(Call("listServos", NoArg, NoneV, 0, 0, FALSE, m, FALSE, k, 0, 0),
               ListServosOp(is_serial, rxbuf, m, attached, k))

WriteServoId ==
    /\ CanRead
    /\ \E n \in {0, 7, 256}, o \in BOOLEAN, k \in {"ok", "late", "wrongcmd"} :
        /\ o => k = "ok"
        /\ Finish(Call("writeServoId", NoArg, NoneV, 0, n, o, 0, FALSE, k, 0, 0),
                  WriteServoIdOp(is_serial, rxbuf, servos, n, o, attached, k))

BatteryFailKinds == {"none", "late", "wrongcmd", "short", "empty"}

GetBatteryVoltage ==
    /\ CanRead
    /\ \E f \in 0..MaxTries, k \in BatteryFailKinds, mv \in Millivolts :
        /\ f = 0 => k = "none"
        /\ f > 0 => mv = 7400
        /\ Finish(Call("getBatteryVoltage", NoArg, NoneV, 0, 0, FALSE, 0, FALSE, k, f, mv),
                  GetBatteryVoltageOp(is_serial, rxbuf, servos, f, k, mv))

\* the caller takes the result of the call that returned or raised
Return ==
    /\ ~Idle
    /\ call' = NoCall
    /\ out' = NoResult
    /\ UNCHANGED <<is_serial, servos, attached, rxbuf, codec>>

\* between two calls a servo is disconnected from the bus
Unplug ==
    /\ Idle
    /\ \E i \in attached : attached' = attached \ {i}
    /\ UNCHANGED <<is_serial, servos, rxbuf, call, out, codec>>

\* between two calls a servo is connected to the bus
Plug ==
    /\ Idle
    /\ Cardinality(attached) < MaxAttached
    /\ \E i \in ServoIds \ attached : attached' = attached \cup {i}
    /\ UNCHANGED <<is_serial, servos, rxbuf, call, out, codec>>

Next ==
    \/ SetPosition
    \/ GetPosition
    \/ ServoOff
    \/ ListServos
    \/ WriteServoId
    \/ GetBatteryVoltage
    \/ Return
    \/ Unplug
    \/ Plug

Spec == Init /\ [][Next]_vars

\* ------------------------------------------------------------------------
\* The frame codec on its own: a frame built by _send is handed, whole or
\* damaged, to _recv of the same transport
\* ------------------------------------------------------------------------
PayloadOf(cmd, n) == [i \in 1..n |-> (7 * i + cmd) % 256]

\* _send of a payload: the frame that goes out on the wire
Encode ==
    /\ codec.op = "idle"
    /\ \E cmd \in Commands, n \in 0..MaxPayloadLen :
         codec' = Codec("sent", cmd, PayloadOf(cmd, n),
                        FrameOf(is_serial, SendBytes(is_serial, cmd, PayloadOf(cmd, n))),
                        "none", NoRecv)
    /\ UNCHANGED <<is_serial, servos, attached, rxbuf, call, out>>

\* the frame is damaged on the way: a signature byte, the command byte, or the tail
Damage ==
    /\ codec.op = "sent"
    /\ codec.damage = "none"
    /\ \/ codec' = [codec EXCEPT !.raw[1] = 0, !.damage = "sig0"]
       \/ codec' = [codec EXCEPT !.raw[2] = 0, !.damage = "sig1"]
       \/ codec' = [codec EXCEPT !.raw[4] = (codec.cmd + 1) % 256, !.damage = "cmd"]
       \/ \E k \in {0, 1, 2, 3, HeaderSize, Len(codec.raw) - 1} :
            /\ k < Len(codec.raw)
            /\ codec' = [codec EXCEPT !.raw = Take(codec.raw, k), !.damage = "cut"]
    /\ UNCHANGED <<is_serial, servos, attached, rxbuf, call, out>>

\* _recv with the command that was sent as the expected command
Decode ==
    /\ codec.op = "sent"
    /\ codec' = [codec EXCEPT !.op = "received",
                              !.res = Recv(is_serial, codec.cmd, <<codec.raw>>)]
    /\ UNCHANGED <<is_serial, servos, attached, rxbuf, call, out>>

NextFrame ==
    /\ codec.op = "received"
    /\ codec' = NoCodec
    /\ UNCHANGED <<is_serial, servos, attached, rxbuf, call, out>>

InitCodec ==
    /\ is_serial \in BOOLEAN
    /\ servos = <<>>
    /\ attached = {}
    /\ rxbuf = <<>>
    /\ call = NoCall
    /\ out = NoResult
    /\ codec = NoCodec

NextCodec ==
    \/ Encode
    \/ Damage
    \/ Decode
    \/ NextFrame

SpecCodec == InitCodec /\ [][NextCodec]_vars

\* ------------------------------------------------------------------------
\* Properties
\* ------------------------------------------------------------------------
Returned(op) == call.op = op /\ out.err = "none"

\* the _send events and the _recv events of the last call
Writes == SelectSeq(out.trace, LAMBDA e : e.ev = "write")
Reads == SelectSeq(out.trace, LAMBDA e : e.ev = "read")

\* the frame an event put on the wire, and its command byte and payload
WireFrame(e) == FrameOf(is_serial, e.bytes)
IsFrame(e, cmd) == e.ev = "write" /\ WireFrame(e)[4] = cmd
PayloadIn(e) == Drop(WireFrame(e), HeaderSize)

WroteFrame(cmd) == \E i \in 1..Len(out.trace) : IsFrame(out.trace[i], cmd)

\* the trace starts with one GetPosition write/read pair for each id 1..n, in order
ProbesFirst(n) ==
    /\ Len(out.trace) >= 2 * n
    /\ \A i \in 1..n :
         /\ IsFrame(out.trace[2 * i - 1], CMD_GET_SERVO_POSITION)
         /\ PayloadIn(out.trace[2 * i - 1]) = <<1, i>>
         /\ out.trace[2 * i].ev = "read"

\* C1: writeServoId without overwrite_all runs discovery first; it writes a
\* WriteId frame only if that discovery found exactly one servo, and with two or
\* more discovered servos it raises AmbiguousTarget and writes no WriteId frame.
C1_WriteIdOnlyForSingleServo ==
    (call.op = "writeServoId" /\ ~call.overwrite) =>
        /\ ProbesFirst(DefaultMaxServoId)
        /\ WroteFrame(CMD_SERVO_ID_WRITE) => Len(servos) = 1
        /\ Len(servos) >= 2 =>
             out.err = "AmbiguousTarget" /\ ~WroteFrame(CMD_SERVO_ID_WRITE)

C1_Witness ==
    /\ call.op = "writeServoId" /\ ~call.overwrite /\ call.new_id = 7
    /\ attached = {2, 5} /\ servos = <<2, 5>>
    /\ out.err = "AmbiguousTarget"
    /\ Len(Writes) = DefaultMaxServoId

ValidationErrors == {"PositionRange", "AngleRange", "BadSpec", "AmbiguousTarget", "ZeroId"}

\* C2 as stated: a call that ends in a validation error has written no byte
C2_NoByteBeforeValidationError ==
    (~Idle /\ out.err \in ValidationErrors) => Writes = <<>>

\* C2 amended: setPosition, getPosition and servoOff that end in a validation
\* error have written no byte; writeServoId that ends in a validation error has
\* written no WriteId frame, only the GetPosition probes of its discovery (and
\* nothing at all with overwrite_all).
C2_ValidationErrorWritesNoCommand ==
    (~Idle /\ out.err \in ValidationErrors) =>
        /\ call.op # "writeServoId" => Writes = <<>>
        /\ call.op = "writeServoId" =>
             /\ \A i \in 1..Len(Writes) : IsFrame(Writes[i], CMD_GET_SERVO_POSITION)
             /\ call.overwrite => Writes = <<>>

C2_Witness ==
    /\ call.op = "setPosition" /\ call.arg.t = "list" /\ Len(call.arg.items) = 2
    /\ call.arg.items[1].t = "servo"
    /\ out.err = "BadSpec"
    /\ Writes = <<>>

\* C3: getBatteryVoltage makes at most 5 attempts, never raises, returns the
\* value of the first attempt that yields a reply, and returns 0.0 after exactly
\* 5 attempts when the device sends nothing 5 times, on either transport.
C3_BatteryRetriesThenSentinel ==
    (call.op = "getBatteryVoltage" /\ call.kind = "none") =>
        /\ out.err = "none"
        /\ Len(Writes) = Min(call.fails + 1, MaxTries)
        /\ Len(Reads) = Len(Writes)
        /\ out.ret = FloatV(IF call.fails = MaxTries THEN 0 ELSE call.mv)

\* the ids in a sequence
Ids(seq) == {seq[i] : i \in 1..Len(seq)}

Ascending(seq) == \A i \in 1..(Len(seq) - 1) : seq[i] < seq[i + 1]

\* getPosition(i) returned: the read gave at least the four bytes it indexes
ProbeSucceeded(e) == e.res = "data" /\ Len(e.bytes) >= 4

\* C4: listServos(max_id) probes 1..max_id in ascending order, one getPosition
\* each, never raises, and leaves as cached list the ascending list of exactly
\* the ids whose probe succeeded.
C4_ListServosResult ==
    call.op = "listServos" =>
        /\ out.err = "none"
        /\ Len(out.trace) = 2 * call.max_id
        /\ ProbesFirst(call.max_id)
        /\ Ascending(servos)
        /\ \A i \in 1..call.max_id : i \in Ids(servos) <=> ProbeSucceeded(out.trace[2 * i])
        /\ Ids(servos) \subseteq 1..call.max_id
        /\ out.ret.v = Len(servos)
        /\ call.kind = "ok" => Ids(servos) = attached \cap 1..call.max_id

C4_Witness ==
    /\ call.op = "listServos" /\ call.max_id = DefaultMaxServoId /\ call.kind = "ok"
    /\ attached = {1, 3}
    /\ servos = <<1, 3>>

\* the events alternate write, read, write, read, ... for the same command
Pairs(tr, cmd, n) ==
    /\ Len(tr) = 2 * n
    /\ \A i \in 1..n :
         /\ IsFrame(tr[2 * i - 1], cmd)
         /\ tr[2 * i].ev = "read" /\ tr[2 * i].cmd = cmd

\* C5 as stated: every operation that returns has made exactly one write
\* followed by exactly one read
C5_OneWriteThenOneRead ==
    (call.op \in {"setPosition", "getPosition", "servoOff", "writeServoId",
                  "getBatteryVoltage"} /\ out.err = "none") =>
        /\ Len(out.trace) = 2
        /\ out.trace[1].ev = "write"
        /\ out.trace[2].ev = "read"

\* C5 amended: getPosition makes exactly one write followed by exactly one read;
\* setPosition and servoOff make exactly one write and no read; writeServoId
\* makes one WriteId write and no read of its own, after the 6 probe write/read
\* pairs of discovery when overwrite_all is false; getBatteryVoltage makes 1 to 5
\* write/read pairs.  Every read directly follows the write of its request.
C5_WriteReadShape ==
    /\ Returned("getPosition") => Pairs(out.trace, CMD_GET_SERVO_POSITION, 1)
    /\ Returned("setPosition") =>
         Len(out.trace) = 1 /\ IsFrame(out.trace[1], CMD_SERVO_MOVE)
    /\ Returned("servoOff") =>
         Len(out.trace) = 1 /\ IsFrame(out.trace[1], CMD_SERVO_STOP)
    /\ Returned("writeServoId") =>
         LET n == IF call.overwrite THEN 0 ELSE DefaultMaxServoId
         IN  /\ Len(out.trace) = 2 * n + 1
             /\ Pairs(Take(out.trace, 2 * n), CMD_GET_SERVO_POSITION, n)
             /\ IsFrame(out.trace[2 * n + 1], CMD_SERVO_ID_WRITE)
    /\ Returned("getBatteryVoltage") =>
         \E n \in 1..MaxTries : Pairs(out.trace, CMD_GET_BATTERY_VOLTAGE, n)

C5_Witness ==
    /\ Returned("getBatteryVoltage")
    /\ call.fails = 2
    /\ Len(Writes) = 3 /\ Len(Reads) = 3
    /\ out.ret = FloatV(7400)

\* C6: a frame built by the send path and handed whole to the receive path with
\* the same command comes back as exactly the payload, for every opcode and
\* every payload length up to 250, on both transports.
C6_FrameRoundTrip ==
    (codec.op = "received" /\ codec.damage = "none") =>
        codec.res.kind = "data" /\ codec.res.data = codec.payload

\* C7: a frame with a wrong signature byte, a wrong command byte, or fewer bytes
\* than its header declares never yields a payload from the receive path.
C7_DamagedFrameYieldsNoPayload ==
    (codec.op = "received" /\ codec.damage # "none") => codec.res.kind # "data"

\* C8: writeServoId with overwrite_all and a non-zero id writes the WriteId frame
\* with payload [new_id] whatever the cached list holds, and probes nothing.
C8_OverwriteAllAlwaysWrites ==
    (call.op = "writeServoId" /\ call.overwrite /\ call.new_id = 7) =>
        /\ out.err = "none"
        /\ Len(out.trace) = 1
        /\ IsFrame(out.trace[1], CMD_SERVO_ID_WRITE)
        /\ PayloadIn(out.trace[1]) = <<call.new_id>>

\* C9: writeServoId(0) always ends in ZeroId, whatever overwrite_all is and
\* however many servos were discovered.
C9_ZeroIdAlwaysRaisesZeroId ==
    (call.op = "writeServoId" /\ call.new_id = 0) => out.err = "ZeroId"

\* the triples of a GetPosition reply payload: 0-based entry j is (id, position)
ReplyCount(data) == data[1]
ReplyId(data, j) == data[j * 3 + 2]

\* C10: after getPosition on a list returned, every entry holds the position the
\* reply reports for the entry's own id, whatever the order of the reply.
C10_EntriesHoldOwnPosition ==
    (Returned("getPosition") /\ call.arg.t = "list") =>
        LET data == out.trace[2].bytes
        IN  \A i \in 1..Len(out.objs) :
              \A j \in 0..(ReplyCount(data) - 1) :
                ReplyId(data, j) = out.objs[i].a =>
                  out.objs[i].b = ReplyPosition(data, j)

\* the ids a getPosition request names are all attached: the device answers it
Answered == \A i \in 1..Len(RequestIds(call.arg)) : RequestIds(call.arg)[i] \in attached

\* C11: getPosition whose read yields no valid reply (nothing arrived in time,
\* wrong signature, wrong echoed command) raises after exactly one request
\* write and one read, does not retry and returns no position, on both
\* transports.
C11_GetPositionFailFast ==
    (call.op = "getPosition" /\ out.trace # <<>>) =>
        /\ Len(out.trace) = 2
        /\ IsFrame(out.trace[1], CMD_GET_SERVO_POSITION)
        /\ out.trace[2].ev = "read"
        /\ (call.kind \in {"late", "badsig", "wrongcmd"} \/ ~Answered) =>
             out.trace[2].res # "data"
        /\ out.trace[2].res # "data" =>
             /\ out.err \in {"RecvError", "IndexError"}
             /\ ~is_serial => out.err = "RecvError"
             /\ out.ret = NoneV
             /\ out.objs = call.arg.items

C11_Witness ==
    /\ call.op = "getPosition" /\ call.arg = IdArg(1) /\ 1 \in attached
    /\ call.kind = "wrongcmd"
    /\ out.err = "RecvError"
    /\ Len(Writes) = 1 /\ Len(Reads) = 1

\* C12: setPosition(id, p) with an integer p writes one Move frame carrying p
\* when 0 <= p <= 1000 and raises PositionRange without writing otherwise.
C12_PositionRange ==
    (call.op = "setPosition" /\ call.arg.t = "int" /\ IsByte(call.arg.a)
       /\ call.position.t = "int") =>
        IF call.position.v >= 0 /\ call.position.v <= 1000
          THEN /\ out.err = "none"
               /\ Len(out.trace) = 1
               /\ IsFrame(out.trace[1], CMD_SERVO_MOVE)
               /\ Len(PayloadIn(out.trace[1])) = 6
               /\ PayloadIn(out.trace[1])[1] = 1
               /\ PayloadIn(out.trace[1])[4] = call.arg.a
               /\ PayloadIn(out.trace[1])[5] + 256 * PayloadIn(out.trace[1])[6]
                    = call.position.v
          ELSE out.err = "PositionRange" /\ out.trace = <<>>

C12_Witness ==
    /\ Returned("setPosition") /\ call.arg = IdArg(1)
    /\ call.position = IntV(1000)
    /\ PayloadIn(out.trace[1]) = <<1, 232, 3, 1, 232, 3>>

\* what the caller sees of a call: the error raised, or the value returned
Outcome(r) == <<r.err, r.ret>>

\* C13: for the same call and the same behaviour of the device, the caller sees
\* the same outcome on the serial and on the HID transport: the call made on
\* this transport ends as the same call does on the other one.
C13_TransportEquivalence ==
    [][/\ (Idle /\ call'.op = "getPosition") =>
            Outcome(out') =
              Outcome(GetPositionOp(~is_serial, Normal(~is_serial, rxbuf), servos,
                                    call'.arg, call'.degrees, attached, call'.kind))
       /\ (Idle /\ call'.op = "getBatteryVoltage") =>
            Outcome(out') =
              Outcome(GetBatteryVoltageOp(~is_serial, Normal(~is_serial, rxbuf), servos,
                                          call'.fails, call'.kind, call'.mv))]_vars

\* C14: the cached id list is left unchanged by every step that is not a
\* discovery, and a discovery (listServos, or writeServoId without
\* overwrite_all) leaves exactly the ids whose probe succeeded in that call,
\* in ascending order, whatever the list held before.
C14_CacheChangesOnlyInDiscovery ==
    [][/\ (\/ call'.op \in {"idle", "setPosition", "getPosition", "servoOff",
                            "getBatteryVoltage"}
           \/ call'.op = "writeServoId" /\ call'.overwrite) => servos' = servos
       /\ (/\ Idle
           /\ \/ call'.op = "listServos"
              \/ call'.op = "writeServoId" /\ ~call'.overwrite) =>
            /\ Ascending(servos')
            /\ Ids(servos') =
                 {i \in 1..(IF call'.op = "listServos" THEN call'.max_id
                                                       ELSE DefaultMaxServoId) :
                    ProbeSucceeded(out'.trace[2 * i])}]_vars

C14_Witness ==
    /\ call.op = "getPosition" /\ out.err = "RecvError"
    /\ attached = {}
    /\ servos = <<1, 3>>

\* the positions carried by a Move payload [count, dur_lo, dur_hi, (id, lo, hi)*]
MovePositions(pl) ==
    {pl[3 * k + 2] + 256 * pl[3 * k + 3] : k \in 1..((Len(pl) - 3) \div 3)}

\* C15: every Move frame written carries only positions in [0, 1000], for a
\* single id, a single servo object and a list of servo objects and pairs.
C15_MoveFramesCarryValidPositions ==
    \A i \in 1..Len(out.trace) :
        IsFrame(out.trace[i], CMD_SERVO_MOVE) =>
            \A q \in MovePositions(PayloadIn(out.trace[i])) : q >= 0 /\ q <= PositionMax

\* C16: every frame written has a length byte equal to the payload length plus
\* 2, and in Move, Stop and GetPosition frames the count byte equals the number
\* of servo entries that follow it.
C16_FramesWellFormed ==
    \A i \in 1..Len(out.trace) :
        out.trace[i].ev = "write" =>
            /\ WireFrame(out.trace[i])[3] = Len(PayloadIn(out.trace[i])) + LengthOverhead
            /\ IsFrame(out.trace[i], CMD_SERVO_MOVE) =>
                 3 * PayloadIn(out.trace[i])[1] = Len(PayloadIn(out.trace[i])) - 3
            /\ (\/ IsFrame(out.trace[i], CMD_SERVO_STOP)
                \/ IsFrame(out.trace[i], CMD_GET_SERVO_POSITION)) =>
                 PayloadIn(out.trace[i])[1] = Len(PayloadIn(out.trace[i])) - 1

\* C17: listServos lists id i only if the read of the probe for id i returned a
\* reply that names id i, so an id that is not attached is never listed, also
\* when the device answers late.
C17_ListedIdsAnsweredTheirProbe ==
    call.op = "listServos" =>
        /\ \A i \in Ids(servos) : ReplyId(out.trace[2 * i].bytes, 0) = i
        /\ Ids(servos) \subseteq attached

\* C18: getPosition on a list either returns with every entry's position taken
\* from the reply, or raises with no entry modified.
C18_ListQueryAllOrNothing ==
    (call.op = "getPosition" /\ call.arg.t = "list" /\ out.trace # <<>>) =>
        IF out.err = "none"
          THEN \A i \in 1..Len(out.objs) :
                 /\ Len(out.trace[2].bytes) >= 3 * i + 1
                 /\ out.objs[i].b = ReplyPosition(out.trace[2].bytes, i - 1)
          ELSE out.objs = call.arg.items

\* C19: the Move frame carries the duration as two bytes, low byte first, that
\* hold duration mod 65536; a duration of 65536 or more is sent truncated and
\* raises nothing.
C19_DurationLittleEndian ==
    /\ (call.op = "setPosition" /\ out.trace # <<>>) =>
         /\ IsFrame(out.trace[1], CMD_SERVO_MOVE)
         /\ IsByte(PayloadIn(out.trace[1])[2])
         /\ IsByte(PayloadIn(out.trace[1])[3])
         /\ PayloadIn(out.trace[1])[2] + 256 * PayloadIn(out.trace[1])[3]
              = call.duration % 65536
    /\ (call.op = "setPosition" /\ call.arg = IdArg(2) /\ call.position = IntV(500)) =>
         out.err = "none" /\ Len(out.trace) = 1

C19_Witness ==
    /\ Returned("setPosition") /\ call.duration = 66536
    /\ PayloadIn(out.trace[1]) = <<1, 232, 3, 2, 244, 1>>

====
